---- MODULE Spec2Model ----
(***************************************************************************)
(* Model of the rag-parser-service worker: the consume loop of WorkerPool, *)
(* the retry-driven job it dispatches, the DocumentService orchestrator,   *)
(* and the Kafka consumer / producer clients they call.                    *)
(*                                                                         *)
(* Two threads are modelled: the consume-loop thread (main_pc) and the     *)
(* pool worker thread running the one dispatched job (job_pc).  The        *)
(* external systems (bus, blob store, relational store, parser libraries)  *)
(* answer every call nondeterministically with one of the outcomes the     *)
(* calling code distinguishes.                                             *)
(***************************************************************************)
EXTENDS Integers, Sequences, FiniteSets, TLC

(***************************************************************************)
(* Bounds of the model.                                                    *)
(***************************************************************************)
\* Number of messages the bus delivers in one run.
MaxMsgs == 2
\* Largest configured settings.max_retries explored.
MaxRetriesBound == 2
\* Number of failures of the collaborators (store, blob store, parser
\* library, producer) injected in one run.
MaxFaults == 2

(***************************************************************************)
(* Inputs.                                                                 *)
(***************************************************************************)
\* Document ids and checksums, in the order messages introduce them.
DocOrder == << "d1", "d2" >>
ChecksumOrder == << "c1", "c2" >>
Docs == { DocOrder[i] : i \in 1..Len(DocOrder) }
Checksums == { ChecksumOrder[i] : i \in 1..Len(ChecksumOrder) }

\* settings.max_retries is an unconstrained int (config.py:41).
MaxRetriesValues == (0 - 1) .. MaxRetriesBound

\* settings.worker_count, the size of the thread pool: the smallest pool.
WorkerCounts == { 1 }

\* settings.retry_backoff_seconds, as the characters of the configured string.
BackoffStrings ==
  { <<"5">>,
    <<"5", ",", " ", "1", "5", ",", "4", "5">> }

VARIABLES
  max_retries,            \* settings.max_retries
  retry_backoff_seconds,  \* settings.retry_backoff_seconds
  worker_count,           \* settings.worker_count
  running,                \* WorkerPool.running
  main_pc,                \* position of the consume-loop thread
  polled,                 \* number of messages delivered by the bus so far
  msg_data,               \* the message the consume loop is handling
  job_pc,                 \* position of the pool worker thread in the job
  retry_count,            \* local retry_count of the job
  invocations,            \* process_document calls made by the job
  failures,               \* of them, those that raised a non-ValueError
  sleeps,                 \* time.sleep durations of the job, in order
  result,                 \* what the last process_document call did
  escaped,                \* an exception left the job (Future holds it)
  job,                    \* arguments of the submitted job: event, message
  in_flight_jobs,         \* WorkerPool.in_flight_jobs (keys)
  structures,             \* table document_structures
  documents,              \* table documents
  commits,                \* offset -> number of commit_message invocations
  published,              \* events the producer took for this message, in order
  faults,                 \* collaborator failures injected so far
  consumer_open,          \* the consumer has not been closed
  producer_flushed,       \* producer.stop() has flushed
  last_poll,              \* how the last consumer.poll call ended
  commit_failed,          \* consumer.commit failed for this message
  call                    \* a helper function called on its own: inputs, output

vars == << max_retries, retry_backoff_seconds, worker_count, running, main_pc, polled,
           msg_data, job_pc, retry_count, invocations, failures, sleeps,
           result, escaped, job, in_flight_jobs, structures, documents,
           commits, published, faults, consumer_open, producer_flushed,
           last_poll, commit_failed, call >>

(***************************************************************************)
(* Settings.retry_backoff_list: [int(x.strip()) for x in s.split(",")]     *)
(***************************************************************************)
RECURSIVE SplitComma(_)
SplitComma(s) ==
  IF \A i \in 1..Len(s) : s[i] # ","
    THEN << s >>
    ELSE LET i == CHOOSE k \in 1..Len(s) :
                     s[k] = "," /\ \A j \in 1..(k - 1) : s[j] # ","
         IN << SubSeq(s, 1, i - 1) >> \o SplitComma(SubSeq(s, i + 1, Len(s)))

RECURSIVE Strip(_)
Strip(s) ==
  IF Len(s) = 0 THEN s
  ELSE IF s[1] = " " THEN Strip(Tail(s))
  ELSE IF s[Len(s)] = " " THEN Strip(SubSeq(s, 1, Len(s) - 1))
  ELSE s

DigitValue(c) ==
  CASE c = "0" -> 0 [] c = "1" -> 1 [] c = "2" -> 2 [] c = "3" -> 3
    [] c = "4" -> 4 [] c = "5" -> 5 [] c = "6" -> 6 [] c = "7" -> 7
    [] c = "8" -> 8 [] c = "9" -> 9

RECURSIVE ToInt(_)
ToInt(s) ==
  IF Len(s) = 1 THEN DigitValue(s[1])
  ELSE 10 * ToInt(SubSeq(s, 1, Len(s) - 1)) + DigitValue(s[Len(s)])

retry_backoff_list(s) ==
  LET parts == SplitComma(s)
  IN [i \in 1..Len(parts) |-> ToInt(Strip(parts[i]))]

Min(a, b) == IF a <= b THEN a ELSE b

\* A faulty BackoffIndex: the index forgets the "- 1".
BackoffIndex_OffByOne(count, len) == Min(count, len - 1)

\* worker_pool.py:190, the 0-based index min(retry_count - 1, len(list) - 1).
BackoffIndex(count, len) == Min(count - 1, len - 1)

\* worker_pool.py:189-191, the delay slept before retry number count.
Backoff(count) ==
  LET list == retry_backoff_list(retry_backoff_seconds)
  IN list[BackoffIndex(count, Len(list)) + 1]

(***************************************************************************)
(* Event schema (kafka/schemas.py).                                        *)
(***************************************************************************)
RequiredFields ==
  { "document_id", "original_name", "storage_path", "file_size", "mime_type",
    "md5_checksum", "user_id", "organization_id", "timestamp" }

AllFields == RequiredFields \cup { "metadata" }

\* A decoded JSON value: an object with the fields it has and those of them
\* whose value has the wrong type, or a value that is not an object.
Payload(kind, fields, illtyped, d, c, mime, name) ==
  [ kind |-> kind, fields |-> fields, illtyped |-> illtyped,
    document_id |-> d, md5_checksum |-> c, mime_type |-> mime,
    original_name |-> name ]

NoValue(kind) == Payload(kind, {}, {}, "", "", "", << >>)

\* validate_event: event_class(**event_data) raises TypeError for a value that
\* is no mapping; ValidationError (missing or ill-typed field) gives None.
validate_event(value) ==
  IF value.kind # "object" THEN "TypeError"
  ELSE IF RequiredFields \subseteq value.fields /\ value.illtyped = {}
    THEN "event"
    ELSE "None"

MimeToFormat ==
  [ m \in { "application/vnd.openxmlformats-officedocument.wordprocessingml.document",
            "application/msword",
            "application/pdf",
            "application/vnd.openxmlformats-officedocument.presentationml.presentation",
            "application/vnd.ms-powerpoint",
            "application/vnd.openxmlformats-officedocument.spreadsheetml.sheet",
            "application/vnd.ms-excel" } |->
    CASE m = "application/vnd.openxmlformats-officedocument.wordprocessingml.document" -> "docx"
      [] m = "application/msword" -> "doc"
      [] m = "application/pdf" -> "pdf"
      [] m = "application/vnd.openxmlformats-officedocument.presentationml.presentation" -> "pptx"
      [] m = "application/vnd.ms-powerpoint" -> "ppt"
      [] m = "application/vnd.openxmlformats-officedocument.spreadsheetml.sheet" -> "xlsx"
      [] m = "application/vnd.ms-excel" -> "xls" ]

ExtensionList ==
  { <<"d","o","c","x">>, <<"d","o","c">>, <<"p","d","f">>, <<"p","p","t","x">>,
    <<"p","p","t">>, <<"x","l","s","x">>, <<"x","l","s">> }

\* str.lower() left out of the extension lookup.
Lower_Identity(ch) == ch

\* str.lower() on the characters file names are made of here.
Lower(ch) ==
  CASE ch = "D" -> "d" [] ch = "O" -> "o" [] ch = "C" -> "c" [] ch = "X" -> "x"
    [] ch = "P" -> "p" [] ch = "F" -> "f" [] ch = "T" -> "t" [] ch = "L" -> "l"
    [] ch = "S" -> "s" [] ch = "A" -> "a"
    [] OTHER -> ch

\* The format names as strings, for an extension given by its characters.
ExtensionName(ext) ==
  CASE ext = <<"d","o","c","x">> -> "docx"
    [] ext = <<"d","o","c">> -> "doc"
    [] ext = <<"p","d","f">> -> "pdf"
    [] ext = <<"p","p","t","x">> -> "pptx"
    [] ext = <<"p","p","t">> -> "ppt"
    [] ext = <<"x","l","s","x">> -> "xlsx"
    [] ext = <<"x","l","s">> -> "xls"

\* DocumentUploadedEvent.get_format
get_format(mime, name) ==
  IF mime \in DOMAIN MimeToFormat THEN MimeToFormat[mime]
  ELSE IF \E i \in 1..Len(name) : name[i] = "."
    THEN LET dot == CHOOSE k \in 1..Len(name) :
                       name[k] = "." /\ \A j \in (k + 1)..Len(name) : name[j] # "."
             raw == SubSeq(name, dot + 1, Len(name))
             ext == [i \in 1..Len(raw) |-> Lower(raw[i])]
         IN IF ext \in ExtensionList THEN ExtensionName(ext) ELSE "pdf"
    ELSE "pdf"

\* ParserFactory._parsers
Parsers == { "docx", "pdf", "pptx", "xlsx" }

(***************************************************************************)
(* Relational store and the orchestrator (services/document.py).           *)
(***************************************************************************)
Row(id, d, c) == [ id |-> id, document_id |-> d, checksum |-> c ]

RowsOf(structs, d) == { r \in structs : r.document_id = d }

\* A faulty _check_existing_structure: the checksum filter is applied to an
\* empty checksum too.
check_existing_structure_AlwaysFiltered(structs, d, c, db_ok) ==
  db_ok /\ \E r \in structs : r.document_id = d /\ r.checksum = c

\* A faulty _check_existing_structure: the answer does not depend on the
\* query having failed.
check_existing_structure_Unguarded(structs, d, c, db_ok) ==
  \E r \in structs : r.document_id = d /\ (c # "" => r.checksum = c)

\* DocumentService._check_existing_structure: a failing query (db_ok false)
\* is logged and answered False; "if checksum:" skips the filter for "".
check_existing_structure(structs, d, c, db_ok) ==
  db_ok /\ \E r \in structs :
             r.document_id = d /\ (c # "" => r.checksum = c)

\* DocumentService._update_document_status: update or create the row; a
\* SQLAlchemyError (db_ok false) is logged and swallowed.
update_document_status(docs, d, status, error_message, db_ok) ==
  IF db_ok
    THEN [docs EXCEPT ![d] = [ status |-> status, error_message |-> error_message ]]
    ELSE docs

\* The id uuid4() gives the new row: one no other row has.
FreshId(structs) == Cardinality(structs) + 1

\* An INSERT that reports success and stores no row.
save_structure_NotStored(structs, d, c) == structs

\* DocumentService._save_structure, the INSERT having succeeded.
save_structure(structs, d, c) ==
  structs \cup { Row(FreshId(structs), d, c) }

\* What one process_document call did; exc is "none" (it returned),
\* "ValueError" or "Exception" (it raised).
NoResult ==
  [ document_id |-> "", checksum |-> "", existed |-> FALSE, exc |-> "none",
    cause |-> "", structure_id |-> 0, skipped |-> FALSE,
    downloaded |-> FALSE, parsed |-> FALSE, wrote |-> FALSE,
    status_set |-> FALSE, temp_file |-> "none", failed_calls |-> 0 ]

\* StorageService.cleanup_file on the temporary file of the call: os.remove
\* removes it, or fails (os_ok false), which is logged and swallowed.
cleanup_file(file, os_ok) == IF os_ok THEN "removed" ELSE file

(***************************************************************************)
(* Read API (api.py).                                                      *)
(***************************************************************************)
\* The path parameters uuid.UUID() accepts: the ids of the documents and one
\* well-formed id that no row carries.
UuidTexts == Docs \cup { "d9" }

\* uuid.UUID() accepting every path parameter.
UUID_AcceptAll(text) == text

\* api.py:82-85, uuid.UUID(document_id): the key, or ValueError.
UUID(text) == IF text \in UuidTexts THEN text ELSE "ValueError"

NoResponse ==
  [ status_code |-> 0, status |-> "", error_message |-> "", structure |-> 0 ]

\* api.py:67-123, GET /documents/{document_id}: the responses the handler
\* can give.  The structure is the .first() row of the document, with no
\* ORDER BY: any of its rows (its id), or null (0).
get_document(text, docs, structs) ==
  LET doc_uuid == UUID(text)
      Found(structure) ==
        [ status_code |-> 200, status |-> docs[doc_uuid].status,
          error_message |-> docs[doc_uuid].error_message,
          structure |-> structure ]
  IN IF doc_uuid = "ValueError"
       THEN { [ NoResponse EXCEPT !.status_code = 400 ] }
     ELSE IF doc_uuid \notin DOMAIN docs \/ docs[doc_uuid].status = "absent"
       THEN { [ NoResponse EXCEPT !.status_code = 404 ] }
     ELSE IF RowsOf(structs, doc_uuid) = {}
       THEN { Found(0) }
     ELSE { Found(r.id) : r \in RowsOf(structs, doc_uuid) }

\* The rows the skip path may return: query.filter_by(document_id).first()
\* has no checksum filter and no ORDER BY, so it is any row of the document.
ExistingRows(structs, d, c) == RowsOf(structs, d)

\* DocumentService.process_document: the set of (new store, what the call
\* did) over the answers of the collaborators.  Each external call answers
\* when the code reaches it: the idempotency query (ok / raises), the query
\* of the skip path (ok / raises), download_file (ok / ValueError for an
\* object over the size limit / stat_object raising / fget_object raising
\* after mkstemp created the file), parser.parse (ok / ValueError / another
\* exception), the INSERT (ok / SQLAlchemyError), the status write (ok /
\* SQLAlchemyError, swallowed) and os.remove of the cleanup (ok / OSError,
\* swallowed).  temp_file is the state of the temporary file of the call:
\* "none", "present" or "removed".  failed_calls counts the collaborator
\* calls that failed during the call.
process_document(structs, docs, d, c, format) ==
  LET Failed(ok) == IF ok THEN 0 ELSE 1
      Base(lookup_ok) ==
        [ NoResult EXCEPT
            !.document_id = d, !.checksum = c,
            !.failed_calls = Failed(lookup_ok),
            !.existed = (\E r \in structs :
                           r.document_id = d /\ r.checksum = c) ]
      \* except ValueError: status parse_failed, re-raise
      ValueErr(r, cause) ==
        { [ structures |-> structs,
            documents |-> update_document_status(docs, d, "parse_failed",
                                                 "error", db_ok),
            result |-> [r EXCEPT !.exc = "ValueError", !.cause = cause,
                                 !.status_set = db_ok,
                                 !.failed_calls = @ + Failed(db_ok)] ] :
          db_ok \in BOOLEAN }
      \* except Exception: re-raise, no status change
      OtherErr(r, cause) ==
        { [ structures |-> structs, documents |-> docs,
            result |-> [r EXCEPT !.exc = "Exception", !.cause = cause,
                                 !.failed_calls = @ + 1] ] }
      \* lines 77-87: the skip path
      Skip(base) ==
        OtherErr(base, "fetch")
          \cup { [ structures |-> structs, documents |-> docs,
                   result |-> [base EXCEPT !.structure_id = row.id,
                                           !.skipped = TRUE] ] :
                 row \in ExistingRows(structs, d, c) }
      \* lines 110-135: save, status parsed, return
      Save(r) ==
        OtherErr(r, "save")
          \cup { [ structures |-> save_structure(structs, d, c),
                   documents |-> update_document_status(docs, d, "parsed",
                                                        "", db_ok),
                   result |-> [r EXCEPT !.wrote = TRUE,
                                        !.status_set = db_ok,
                                        !.failed_calls = @ + Failed(db_ok),
                                        !.structure_id = FreshId(structs)] ] :
                 db_ok \in BOOLEAN }
      \* lines 102-103: get_parser, parser.parse
      Parse(r) ==
        IF format \notin Parsers
          THEN ValueErr(r, "unsupported_format")
          ELSE ValueErr([r EXCEPT !.parsed = TRUE], "parse")
                 \cup OtherErr([r EXCEPT !.parsed = TRUE], "parse")
                 \cup Save([r EXCEPT !.parsed = TRUE])
      \* lines 151-154: "if temp_file:" cleanup_file(temp_file)
      Cleanup(outs) ==
        { [o EXCEPT !.result.temp_file = cleanup_file(@, os_ok),
                    !.result.failed_calls = @ + Failed(os_ok)] :
          o \in outs, os_ok \in BOOLEAN }
      \* line 98: download_file.  It raises before mkstemp (size limit,
      \* stat_object) or after it (fget_object): then temp_file of
      \* process_document is still None and the finally clause skips the
      \* cleanup.  Once it has returned, every exit passes the cleanup.
      Download(base) ==
        ValueErr(base, "too_large")
          \cup OtherErr(base, "download")
          \cup OtherErr([base EXCEPT !.temp_file = "present"], "download")
          \cup Cleanup(Parse([base EXCEPT !.downloaded = TRUE,
                                          !.temp_file = "present"]))
  IN UNION { IF check_existing_structure(structs, d, c, db_ok)
               THEN Skip(Base(db_ok))
               ELSE Download(Base(db_ok)) :
             db_ok \in BOOLEAN }

(***************************************************************************)
(* Messages the bus can deliver.                                           *)
(***************************************************************************)
PdfName == << "a", ".", "p", "d", "f" >>

\* (mime_type, original_name) of the valid events explored: one resolves to
\* a registered format, one to a format without a parser.
MimeNamePairs ==
  { << "application/pdf", PdfName >>, << "application/msword", PdfName >> }

\* The names of an order that are in use, and the first one that is not:
\* ids and checksums are interchangeable, so a message either repeats one
\* the state knows or introduces the next one.
NextOf(order, known) ==
  known \cup
    { order[i] : i \in { k \in 1..Len(order) :
                           /\ order[k] \notin known
                           /\ \A j \in 1..(k - 1) : order[j] \in known } }

KnownDocs ==
  { d \in Docs : \/ documents[d].status # "absent"
                 \/ RowsOf(structures, d) # {}
                 \/ d \in in_flight_jobs }

KnownChecksums == { r.checksum : r \in structures }

ValidValues ==
  { Payload("object", AllFields, {}, d, c, mn[1], mn[2]) :
      d \in NextOf(DocOrder, KnownDocs),
      c \in NextOf(ChecksumOrder, KnownChecksums),
      mn \in MimeNamePairs }

\* Objects that fail validation: required fields missing (with and without
\* a document_id), a field of the wrong type.
InvalidValues ==
  { Payload("object", { "document_id" }, {}, "d1", "", "", << >>),
    Payload("object", RequiredFields \ { "document_id" }, {}, "", "c1",
            "application/pdf", PdfName),
    Payload("object", AllFields, { "file_size" }, "d1", "c1",
            "application/pdf", PdfName) }

\* A JSON value that is not an object (a list, a string, a number, null).
NonObjectValues == { NoValue("nonobject") }

PolledValues == ValidValues \cup InvalidValues \cup NonObjectValues

NoMsg == [ offset |-> 0, value |-> NoValue("none") ]

NoJob ==
  [ document_id |-> "", md5_checksum |-> "", mime_type |-> "",
    original_name |-> << >>, message |-> 0 ]

\* A faulty commit_message: the commit goes to the offset mirrored in the
\* run, so a later message commits an earlier offset.
commit_message_Mirrored(cs, offset) ==
  [cs EXCEPT ![Len(cs) + 1 - offset] = @ + 1]

(***************************************************************************)
(* Bus clients (kafka/consumer.py, kafka/producer.py).                     *)
(***************************************************************************)
\* KafkaConsumerClient.commit_message: one invocation for the offset; a
\* failure of the underlying commit is logged and swallowed.
commit_message(cs, offset) == [cs EXCEPT ![offset] = @ + 1]

ParsedEvent(offset, d, structure_id, format) ==
  [ offset |-> offset, topic |-> "document.parsed", document_id |-> d,
    structure_id |-> structure_id, format |-> format, error_type |-> "",
    retryable |-> FALSE ]

\* A faulty ErrorEvent: the event carries the negated flag.
ErrorEvent_FlagNegated(offset, d, error_type, retryable) ==
  [ offset |-> offset, topic |-> "errors.processing", document_id |-> d,
    structure_id |-> 0, format |-> "", error_type |-> error_type,
    retryable |-> ~retryable ]

\* KafkaProducerClient.publish_error_event: the event carries the
\* retryable flag its caller passes.
ErrorEvent(offset, d, error_type, retryable) ==
  [ offset |-> offset, topic |-> "errors.processing", document_id |-> d,
    structure_id |-> 0, format |-> "", error_type |-> error_type,
    retryable |-> retryable ]

\* KafkaProducerClient._publish: produce() either takes the event or raises,
\* and the exception is logged and re-raised to the caller.
publish(evs, e, produced) == IF produced THEN Append(evs, e) ELSE evs

\* The answers produce() may give while failures remain to be injected.
Produced == IF faults < MaxFaults THEN BOOLEAN ELSE { TRUE }

(***************************************************************************)
(* Inputs of the helper functions called on their own.                     *)
(***************************************************************************)
\* MIME types: those of the table and some it does not hold.
MimeInputs ==
  DOMAIN MimeToFormat \cup { "text/plain", "application/octet-stream", "" }

\* File names, each with the extension format resolution is to find in it
\* ("" when it has none that is recognized).
NameInputs ==
  { [ name |-> << "a", ".", "p", "d", "f" >>, ext |-> "pdf" ],
    [ name |-> << "r", ".", "x", "l", "s", "x" >>, ext |-> "xlsx" ],
    [ name |-> << "r", ".", "X", "L", "S", "X" >>, ext |-> "xlsx" ],
    [ name |-> << "a", ".", "D", "o", "c" >>, ext |-> "doc" ],
    [ name |-> << "a", ".", "d", "o", "c", "x" >>, ext |-> "docx" ],
    [ name |-> << "a", ".", "p", "p", "t" >>, ext |-> "ppt" ],
    [ name |-> << "a", ".", "p", "d", "f", ".", "x", "l", "s" >>, ext |-> "xls" ],
    [ name |-> << "a", ".", "p", "p", "t", "x" >>, ext |-> "pptx" ],
    [ name |-> << "a", ".", "x", "l", "s", ".", "t" >>, ext |-> "" ],
    [ name |-> << "p", "d", "f" >>, ext |-> "" ],
    [ name |-> << "a", "." >>, ext |-> "" ],
    [ name |-> << >>, ext |-> "" ] }

\* Decoded values: objects with the fields present (all but at most two)
\* and at most one of the required ones ill-typed, and a value that is no
\* object.
FieldInputs ==
  { [ kind |-> "object", fields |-> fs, illtyped |-> it ] :
      fs \in { x \in SUBSET AllFields : Cardinality(AllFields \ x) <= 2 },
      it \in { {} } \cup { { f } : f \in RequiredFields } }
    \cup { [ kind |-> "nonobject", fields |-> {}, illtyped |-> {} ] }

\* Path parameters of GET /documents/{document_id}.
IdInputs == UuidTexts \cup { "not-a-uuid", "" }

NoDocuments == [ d \in Docs |-> [ status |-> "absent", error_message |-> "" ] ]

\* Contents of the store, as the writes of process_document leave it: empty;
\* d1 failed to parse; d1 parsed, with one row and with two; a row of d1
\* whose status write was lost; d1 and d2 parsed.
StoreInputs ==
  LET parsed(docs, d) == update_document_status(docs, d, "parsed", "", TRUE)
      one == save_structure({}, "d1", "c1")
      two == save_structure(one, "d1", "c2")
      both == save_structure(one, "d2", "c1")
  IN { [ documents |-> NoDocuments, structures |-> {} ],
       [ documents |-> update_document_status(NoDocuments, "d1",
                                              "parse_failed", "error", TRUE),
         structures |-> {} ],
       [ documents |-> parsed(NoDocuments, "d1"), structures |-> one ],
       [ documents |-> parsed(NoDocuments, "d1"), structures |-> two ],
       [ documents |-> NoDocuments, structures |-> one ],
       [ documents |-> parsed(parsed(NoDocuments, "d1"), "d2"),
         structures |-> both ] }

\* Checksums process_document is called with: those of the rows, and the
\* empty one ("if checksum:" is false for "" and for None alike).
ChecksumInputs == Checksums \cup { "" }

\* Formats process_document is called with: one with a parser, one without.
FormatInputs == { "pdf", "doc" }

\* No helper function has been called.
NoCall == [ fn |-> "none" ]

(***************************************************************************)
(* Initial state: the objects as constructed in cmd/worker/main.py, the    *)
(* store empty.                                                            *)
(***************************************************************************)
Init ==
  /\ max_retries \in MaxRetriesValues
  /\ retry_backoff_seconds \in BackoffStrings
  /\ worker_count \in WorkerCounts
  /\ running = FALSE
  /\ main_pc = "start"
  /\ polled = 0
  /\ msg_data = NoMsg
  /\ job_pc = "idle"
  /\ retry_count = 0
  /\ invocations = 0
  /\ failures = 0
  /\ sleeps = << >>
  /\ result = NoResult
  /\ escaped = FALSE
  /\ job = NoJob
  /\ in_flight_jobs = {}
  /\ structures = {}
  /\ documents = NoDocuments
  /\ commits = [ o \in 1..MaxMsgs |-> 0 ]
  /\ published = << >>
  /\ faults = 0
  /\ consumer_open = FALSE
  /\ producer_flushed = FALSE
  /\ last_poll = "none"
  /\ commit_failed = FALSE
  /\ call = NoCall

config_vars == << max_retries, retry_backoff_seconds, worker_count >>
bus_vars == << last_poll, commit_failed >>
job_vars == << job_pc, retry_count, invocations, failures, sleeps, result,
               escaped, job >>
store_vars == << structures, documents >>
close_vars == << consumer_open, producer_flushed >>

(***************************************************************************)
(* Consume-loop thread (WorkerPool.start, _process_messages, _shutdown).   *)
(***************************************************************************)
\* WorkerPool.start up to the loop: running flag, clients started.
start ==
  /\ main_pc = "start"
  /\ running' = TRUE
  /\ consumer_open' = TRUE
  /\ main_pc' = "loop"
  /\ UNCHANGED << bus_vars, faults, config_vars, call, polled, msg_data, job_vars, in_flight_jobs,
                  store_vars, commits, published, producer_flushed >>

\* WorkerPool._signal_handler, at any point after the handlers are installed.
signal_handler ==
  /\ main_pc \notin { "start", "exited" }
  /\ running
  /\ running' = FALSE
  /\ UNCHANGED << bus_vars, faults, config_vars, call, main_pc, polled, msg_data, job_vars,
                  in_flight_jobs, store_vars, commits, published, close_vars >>

\* "while self.running:" and, on exit, the finally clause entering _shutdown.
loop_test ==
  /\ main_pc = "loop"
  /\ main_pc' = IF running THEN "poll" ELSE "drain"
  /\ UNCHANGED << bus_vars, faults, config_vars, call, running, polled, msg_data, job_vars,
                  in_flight_jobs, store_vars, commits, published, close_vars >>

\* How a consumer.poll call can end, by what the bus handed over: nothing
\* within the timeout, an end-of-partition marker, another transport error,
\* a message without payload, with bytes that are not UTF-8, with text that
\* is not JSON, or a message that decodes.  "not_running" is the answer of
\* a consumer that was stopped.
EmptyOutcomes ==
  IF consumer_open THEN { "timeout", "eof" } ELSE { "not_running" }

\* A faulty PollCommits: poll commits whatever it fetched.
PollCommits_Always(outcome) == TRUE

\* poll, lines 91-96: the one commit of poll, in "except JSONDecodeError".
PollCommits(outcome) == outcome = "bad_json"

\* A faulty PollRaises: poll swallows every error.
PollRaises_Never(outcome) == FALSE

\* poll, lines 65-70 and 97-99: KafkaException for a transport error, and
\* what msg.value().decode("utf-8") raises for an absent payload
\* (AttributeError) or bytes that are not UTF-8 (UnicodeDecodeError), are
\* re-raised by "except Exception".
PollRaises(outcome) == outcome \in { "transport_error", "absent", "bad_utf8" }

\* Where the consume loop goes after poll: an exception leaves the loop of
\* start(), whose finally clause runs _shutdown; None makes
\* _process_messages return; a message goes to validation.
PollNext(outcome) ==
  IF PollRaises(outcome) THEN "drain"
  ELSE IF outcome = "message" THEN "validate" ELSE "return"

\* The answers consumer.commit may give while failures remain to be injected.
CommitOk == IF faults < MaxFaults THEN BOOLEAN ELSE { TRUE }

\* A faulty commit_raises: the failure of consumer.commit is propagated.
commit_raises_Propagate(ok) == ~ok

\* commit_message, lines 104-108: "except Exception" logs the failure of
\* consumer.commit and returns; nothing is raised to the caller.
commit_raises(ok) == FALSE

\* poll returning None without a message: lines 56-57, 62-63, 66-68.
poll_empty ==
  /\ main_pc = "poll"
  /\ \E out \in EmptyOutcomes :
       /\ last_poll' = out
       /\ main_pc' = PollNext(out)
  /\ UNCHANGED << commit_failed, faults, config_vars, call, running, polled, msg_data,
                  job_vars, in_flight_jobs, store_vars, commits, published,
                  close_vars >>

\* The commit poll makes, if any, for the message it fetched.
PollCommit(out, offset) ==
  IF PollCommits(out)
    THEN \E ok \in CommitOk :
           /\ commits' = commit_message(commits, offset)
           /\ commit_failed' = ~ok
           /\ faults' = IF ok THEN faults ELSE faults + 1
           /\ main_pc' = IF commit_raises(ok) THEN "drain" ELSE PollNext(out)
    ELSE /\ main_pc' = PollNext(out)
         /\ UNCHANGED << commits, commit_failed, faults >>

\* poll raising: a transport error other than end of partition (no message),
\* or a fetched message whose payload is absent or not UTF-8.
poll_raise ==
  /\ main_pc = "poll"
  /\ \/ /\ last_poll' = "transport_error"
        /\ main_pc' = PollNext("transport_error")
        /\ UNCHANGED << polled, msg_data, commits, commit_failed, faults >>
     \/ /\ polled < MaxMsgs
        /\ polled' = polled + 1
        /\ \E kind \in { "absent", "bad_utf8" } :
             /\ msg_data' = [ offset |-> polled + 1, value |-> NoValue(kind) ]
             /\ last_poll' = kind
             /\ PollCommit(kind, polled + 1)
  /\ UNCHANGED << config_vars, call, running, job_vars, in_flight_jobs, store_vars,
                  published, close_vars >>

\* poll on a payload that is not JSON: commit the message, return None, on
\* which _process_messages returns.
poll_decode_failed ==
  /\ main_pc = "poll"
  /\ polled < MaxMsgs
  /\ polled' = polled + 1
  /\ msg_data' = [ offset |-> polled + 1, value |-> NoValue("bad_json") ]
  /\ last_poll' = "bad_json"
  /\ PollCommit("bad_json", polled + 1)
  /\ UNCHANGED << config_vars, call, running, job_vars, in_flight_jobs, store_vars,
                  published, close_vars >>

\* poll returning a decoded message.
poll_message ==
  /\ main_pc = "poll"
  /\ polled < MaxMsgs
  /\ polled' = polled + 1
  /\ \E v \in PolledValues :
       msg_data' = [ offset |-> polled + 1, value |-> v ]
  /\ last_poll' = "message"
  /\ PollCommit("message", polled + 1)
  /\ UNCHANGED << config_vars, call, running, job_vars, in_flight_jobs, store_vars,
                  published, close_vars >>

\* _process_messages, lines 79-82: validate the decoded value.
validate ==
  /\ main_pc = "validate"
  /\ main_pc' = CASE validate_event(msg_data.value) = "TypeError" -> "handler"
                  [] validate_event(msg_data.value) = "None" -> "publish_invalid"
                  [] OTHER -> "submit"
  /\ UNCHANGED << bus_vars, faults, config_vars, call, running, polled, msg_data, job_vars,
                  in_flight_jobs, store_vars, commits, published, close_vars >>

\* event_data.get("document_id", "unknown")
InvalidDocumentId(value) ==
  IF "document_id" \in value.fields THEN value.document_id ELSE "unknown"

\* _process_messages, lines 83-89: the invalid_schema error event; an
\* exception of the producer goes to "except Exception".
publish_invalid ==
  /\ main_pc = "publish_invalid"
  /\ \E produced \in Produced :
       /\ published' = publish(published,
                               ErrorEvent(msg_data.offset,
                                          InvalidDocumentId(msg_data.value),
                                          "invalid_schema", FALSE),
                               produced)
       /\ faults' = IF produced THEN faults ELSE faults + 1
       /\ main_pc' = IF produced THEN "commit_invalid" ELSE "handler"
  /\ UNCHANGED << bus_vars, config_vars, call, running, polled, msg_data, job_vars,
                  in_flight_jobs, store_vars, commits, close_vars >>

\* _process_messages, lines 90-92: commit the invalid message and return.
commit_invalid ==
  /\ main_pc = "commit_invalid"
  /\ \E ok \in CommitOk :
       /\ commits' = commit_message(commits, msg_data.offset)
       /\ commit_failed' = ~ok
       /\ faults' = IF ok THEN faults ELSE faults + 1
       /\ main_pc' = IF commit_raises(ok) THEN "handler" ELSE "return"
  /\ UNCHANGED << last_poll, config_vars, call, running, polled, msg_data, job_vars,
                  in_flight_jobs, store_vars, published, close_vars >>

\* _process_messages, lines 102-106: executor.submit; the worker thread
\* starts the job with retry_count = 0.
submit ==
  /\ main_pc = "submit"
  /\ job' = [ document_id |-> msg_data.value.document_id,
              md5_checksum |-> msg_data.value.md5_checksum,
              mime_type |-> msg_data.value.mime_type,
              original_name |-> msg_data.value.original_name,
              message |-> msg_data.offset ]
  /\ job_pc' = "loop"
  /\ retry_count' = 0
  /\ main_pc' = "register"
  /\ UNCHANGED << bus_vars, faults, config_vars, call, running, polled, msg_data, invocations,
                  failures, sleeps, result, escaped, in_flight_jobs,
                  store_vars, commits, published, close_vars >>

\* _process_messages, lines 108-110: record the future under the lock.
register ==
  /\ main_pc = "register"
  /\ in_flight_jobs' = in_flight_jobs \cup { msg_data.value.document_id }
  /\ main_pc' = "wait"
  /\ UNCHANGED << bus_vars, faults, config_vars, call, running, polled, msg_data, job_vars,
                  store_vars, commits, published, close_vars >>

\* A faulty AfterResult: the exception of the job is dropped.
AfterResult_Dropped(raised) == "return"

\* A faulty AfterResult: the commit of the handler runs after every job.
AfterResult_AlwaysCommit(raised) == "handler"

\* _process_messages, lines 113-115: future.result() returns, or re-raises
\* the exception of the job into "except Exception".
AfterResult(raised) == IF raised THEN "handler" ELSE "return"

wait ==
  /\ main_pc = "wait"
  /\ job_pc = "done"
  /\ main_pc' = AfterResult(escaped)
  /\ UNCHANGED << bus_vars, faults, config_vars, call, running, polled, msg_data, job_vars,
                  in_flight_jobs, store_vars, commits, published, close_vars >>

\* _process_messages, lines 115-119: log, commit the message, return.
handler ==
  /\ main_pc = "handler"
  /\ \E ok \in CommitOk :
       /\ commits' = commit_message(commits, msg_data.offset)
       /\ commit_failed' = ~ok
       /\ faults' = IF ok THEN faults ELSE faults + 1
       /\ main_pc' = IF commit_raises(ok) THEN "drain" ELSE "return"
  /\ UNCHANGED << last_poll, config_vars, call, running, polled, msg_data, job_vars,
                  in_flight_jobs, store_vars, published, close_vars >>

\* _process_messages returns to the loop of start(): the message, the
\* finished job and what was recorded about this delivery go out of scope.
return ==
  /\ main_pc = "return"
  /\ main_pc' = "loop"
  /\ msg_data' = NoMsg
  /\ job_pc' = "idle"
  /\ job' = NoJob
  /\ retry_count' = 0
  /\ invocations' = 0
  /\ failures' = 0
  /\ sleeps' = << >>
  /\ result' = NoResult
  /\ escaped' = FALSE
  /\ published' = << >>
  /\ last_poll' = "none"
  /\ commit_failed' = FALSE
  /\ UNCHANGED << faults, config_vars, call, running, polled, in_flight_jobs, store_vars,
                  commits, close_vars >>

\* _shutdown: running = False, executor.shutdown(wait=True).
shutdown_drain ==
  /\ main_pc = "drain"
  /\ job_pc \in { "idle", "done" }
  /\ running' = FALSE
  /\ main_pc' = "close_consumer"
  /\ UNCHANGED << bus_vars, faults, config_vars, call, polled, msg_data, job_vars, in_flight_jobs,
                  store_vars, commits, published, close_vars >>

\* _shutdown: consumer.stop().
shutdown_close_consumer ==
  /\ main_pc = "close_consumer"
  /\ consumer_open' = FALSE
  /\ main_pc' = "flush_producer"
  /\ UNCHANGED << bus_vars, faults, config_vars, call, running, polled, msg_data, job_vars,
                  in_flight_jobs, store_vars, commits, published,
                  producer_flushed >>

\* _shutdown: producer.stop() flushes; start() returns.
shutdown_flush_producer ==
  /\ main_pc = "flush_producer"
  /\ producer_flushed' = TRUE
  /\ main_pc' = "exited"
  /\ UNCHANGED << bus_vars, faults, config_vars, call, running, polled, msg_data, job_vars,
                  in_flight_jobs, store_vars, commits, published,
                  consumer_open >>

(***************************************************************************)
(* Pool worker thread (WorkerPool._process_document_with_retry).           *)
(***************************************************************************)
\* line 131: format = event.get_format()
JobFormat == get_format(job.mime_type, job.original_name)

\* A faulty NextAfterProcess: a ValueError is retried like any other error.
NextAfterProcess_RetryAll(exc) ==
  IF exc = "none" THEN "publish_parsed" ELSE "retry"

\* lines 129-183: where the outcome of process_document leads.
NextAfterProcess(exc) ==
  CASE exc = "none" -> "publish_parsed"
    [] exc = "ValueError" -> "publish_parse_error"
    [] OTHER -> "retry"

\* lines 128 and 188: "retry_count <= settings.max_retries".
LoopContinues(count, limit) == count <= limit

\* lines 128-145: the loop test and one invocation of the orchestrator.
job_invoke ==
  /\ job_pc = "loop"
  /\ IF LoopContinues(retry_count, max_retries)
       THEN \E out \in process_document(structures, documents,
                                        job.document_id, job.md5_checksum,
                                        JobFormat) :
              /\ faults + out.result.failed_calls <= MaxFaults
              /\ faults' = faults + out.result.failed_calls
              /\ structures' = out.structures
              /\ documents' = out.documents
              /\ result' = out.result
              /\ invocations' = invocations + 1
              /\ failures' = IF out.result.exc = "Exception"
                               THEN failures + 1 ELSE failures
              /\ job_pc' = NextAfterProcess(out.result.exc)
       ELSE /\ job_pc' = "finally"
            /\ UNCHANGED << structures, documents, result, invocations,
                            failures, faults >>
  /\ UNCHANGED << bus_vars, config_vars, call, running, main_pc, polled, msg_data,
                  retry_count, sleeps, escaped, job, in_flight_jobs, commits,
                  published, close_vars >>

\* lines 134-145: a process_document call that never returns: the calls to
\* the relational store and the blob store carry no timeout, and one of them
\* blocks.  The job stays in the call for ever.
job_hang ==
  /\ job_pc = "loop"
  /\ LoopContinues(retry_count, max_retries)
  /\ faults < MaxFaults
  /\ faults' = faults + 1
  /\ job_pc' = "hung"
  /\ UNCHANGED << bus_vars, config_vars, call, running, main_pc, polled, msg_data,
                  retry_count, invocations, failures, sleeps, result, escaped,
                  job, in_flight_jobs, store_vars, commits, published,
                  close_vars >>

\* lines 147-154: publish the success event; an exception of the producer
\* is caught by "except Exception" of the same try.
job_publish_parsed ==
  /\ job_pc = "publish_parsed"
  /\ \E produced \in Produced :
       /\ published' = publish(published,
                               ParsedEvent(job.message, job.document_id,
                                           result.structure_id, JobFormat),
                               produced)
       /\ faults' = IF produced THEN faults ELSE faults + 1
       /\ job_pc' = IF produced THEN "commit" ELSE "retry"
  /\ UNCHANGED << bus_vars, config_vars, call, running, main_pc, polled, msg_data,
                  retry_count, invocations, failures, sleeps, result, escaped,
                  job, in_flight_jobs, store_vars, commits, close_vars >>

\* lines 173-178: the parsing_error event; an exception raised here is
\* raised inside a handler and leaves the job.
job_publish_parse_error ==
  /\ job_pc = "publish_parse_error"
  /\ \E produced \in Produced :
       /\ published' = publish(published,
                               ErrorEvent(job.message, job.document_id,
                                          "parsing_error", FALSE),
                               produced)
       /\ faults' = IF produced THEN faults ELSE faults + 1
       /\ job_pc' = IF produced THEN "commit" ELSE "finally"
       /\ escaped' = ~produced
  /\ UNCHANGED << bus_vars, config_vars, call, running, main_pc, polled, msg_data,
                  retry_count, invocations, failures, sleeps, result, job,
                  in_flight_jobs, store_vars, commits, close_vars >>

\* lines 185-199: count the retry; sleep the backoff when retries remain.
\* The result of the failed attempt is dropped.
job_retry ==
  /\ job_pc = "retry"
  /\ retry_count' = retry_count + 1
  /\ result' = NoResult
  /\ IF LoopContinues(retry_count + 1, max_retries)
       THEN /\ sleeps' = Append(sleeps, Backoff(retry_count + 1))
            /\ job_pc' = "loop"
       ELSE /\ sleeps' = sleeps
            /\ job_pc' = "publish_exhausted"
  /\ UNCHANGED << bus_vars, faults, config_vars, call, running, main_pc, polled, msg_data,
                  invocations, failures, escaped, job, in_flight_jobs,
                  store_vars, commits, published, close_vars >>

\* lines 201-211: the max_retries_exceeded event; an exception raised here
\* leaves the job.
job_publish_exhausted ==
  /\ job_pc = "publish_exhausted"
  /\ \E produced \in Produced :
       /\ published' = publish(published,
                               ErrorEvent(job.message, job.document_id,
                                          "max_retries_exceeded", FALSE),
                               produced)
       /\ faults' = IF produced THEN faults ELSE faults + 1
       /\ job_pc' = IF produced THEN "commit" ELSE "finally"
       /\ escaped' = ~produced
  /\ UNCHANGED << bus_vars, config_vars, call, running, main_pc, polled, msg_data,
                  retry_count, invocations, failures, sleeps, result, job,
                  in_flight_jobs, store_vars, commits, close_vars >>

\* The commit at line 157 is inside the try block, those at lines 180 and
\* 213 are inside handlers.
CommitInTry == result.document_id # "" /\ result.exc = "none"

\* lines 157, 180, 213: commit the offset of the message, then return.
job_commit ==
  /\ job_pc = "commit"
  /\ \E ok \in CommitOk :
       /\ commits' = commit_message(commits, job.message)
       /\ commit_failed' = ~ok
       /\ faults' = IF ok THEN faults ELSE faults + 1
       /\ job_pc' = IF commit_raises(ok) /\ CommitInTry
                      THEN "retry" ELSE "finally"
       /\ escaped' = (commit_raises(ok) /\ ~CommitInTry)
  /\ UNCHANGED << last_poll, config_vars, call, running, main_pc, polled, msg_data,
                  retry_count, invocations, failures, sleeps, result,
                  job, in_flight_jobs, store_vars, published, close_vars >>

\* lines 216-220: remove the entry of the job; the future completes.
job_finally ==
  /\ job_pc = "finally"
  /\ in_flight_jobs' = in_flight_jobs \ { job.document_id }
  /\ job_pc' = "done"
  /\ UNCHANGED << bus_vars, faults, config_vars, call, running, main_pc, polled, msg_data,
                  retry_count, invocations, failures, sleeps, result, escaped,
                  job, store_vars, commits, published, close_vars >>

Next ==
  \/ start
  \/ signal_handler
  \/ loop_test
  \/ poll_empty
  \/ poll_raise
  \/ poll_decode_failed
  \/ poll_message
  \/ validate
  \/ publish_invalid
  \/ commit_invalid
  \/ submit
  \/ register
  \/ wait
  \/ handler
  \/ return
  \/ shutdown_drain
  \/ shutdown_close_consumer
  \/ shutdown_flush_producer
  \/ job_invoke
  \/ job_hang
  \/ job_publish_parsed
  \/ job_publish_parse_error
  \/ job_retry
  \/ job_publish_exhausted
  \/ job_commit
  \/ job_finally

Spec == Init /\ [][Next]_vars

(***************************************************************************)
(* The helper functions called on their own, on a worker that has not      *)
(* started: one call in a behaviour.                                       *)
(***************************************************************************)
model_vars ==
  << config_vars, bus_vars, running, main_pc, polled, msg_data, job_vars,
     in_flight_jobs, store_vars, commits, published, faults, close_vars >>

\* event.get_format() for a MIME type and a file name.
get_format_call ==
  /\ call = NoCall
  /\ \E m \in MimeInputs, n \in NameInputs :
       call' = [ fn |-> "get_format", mime |-> m, name |-> n.name,
                 ext |-> n.ext, out |-> get_format(m, n.name) ]
  /\ UNCHANGED model_vars

\* validate_event(event_data, DocumentUploadedEvent) for a decoded value;
\* metadata is Field(default_factory=dict).
validate_event_call ==
  /\ call = NoCall
  /\ \E v \in { x \in FieldInputs : x.illtyped \subseteq x.fields } :
       call' = [ fn |-> "validate_event", kind |-> v.kind,
                 fields |-> v.fields, illtyped |-> v.illtyped,
                 metadata |-> IF "metadata" \in v.fields THEN "given"
                                                         ELSE "empty",
                 out |-> validate_event(
                           Payload(v.kind, v.fields, v.illtyped, "d1",
                                   "c1", "application/pdf", PdfName)) ]
  /\ UNCHANGED model_vars

\* GET /documents/{document_id} on some contents of the store.
get_document_call ==
  /\ call = NoCall
  /\ \E text \in IdInputs, st \in StoreInputs :
       \E resp \in get_document(text, st.documents, st.structures) :
         call' = [ fn |-> "get_document", id |-> text, store |-> st,
                   response |-> resp ]
  /\ UNCHANGED model_vars

\* DocumentService.process_document on some contents of the store.
process_document_call ==
  /\ call = NoCall
  /\ \E st \in StoreInputs, d \in Docs, c \in ChecksumInputs,
        format \in FormatInputs :
       \E o \in process_document(st.structures, st.documents, d, c, format) :
         call' = [ fn |-> "process_document", id |-> d, checksum |-> c,
                   format |-> format, store |-> st, result |-> o.result,
                   after |-> [ documents |-> o.documents,
                               structures |-> o.structures ] ]
  /\ UNCHANGED model_vars

CallNext ==
  \/ get_format_call
  \/ validate_event_call
  \/ get_document_call
  \/ process_document_call

CallSpec == Init /\ [][CallNext]_vars

(***************************************************************************)
(* Properties.                                                             *)
(***************************************************************************)
\* The consume loop has finished handling msg_data and is about to return
\* to the loop of start().
Handled == main_pc = "return"

\* msg_data was returned by poll to the consume loop (it decoded).
ReturnedByPoll == msg_data.value.kind \in { "object", "nonobject" }

\* msg_data passed schema validation and was dispatched as a job.
Dispatched == ReturnedByPoll /\ validate_event(msg_data.value) = "event"

\* The schedule each configured string stands for.
ExpectedSchedule ==
  IF retry_backoff_seconds = << "5" >> THEN << 5 >> ELSE << 5, 15, 45 >>

ErrorEventsOf(type) ==
  { i \in 1..Len(published) :
      /\ published[i].topic = "errors.processing"
      /\ published[i].error_type = type }

\* C1: for every message, commit_message is invoked at most once over the
\* whole handling of the delivery, whichever branch is taken.
C1_CommitAtMostOnce == \A o \in 1..MaxMsgs : commits[o] <= 1

\* C1 witness: a delivery whose job let an exception escape has been
\* handled, and its one commit is the one of the consume loop.
C1_Witness ==
  /\ Handled
  /\ Dispatched
  /\ escaped
  /\ commits[msg_data.offset] = 1

\* C2 (as claimed): whenever commit has been invoked for the message being
\* handled, a result row exists for its (document_id, checksum), or an error
\* event was published for it, or validation did not accept it.
C2_CommitOnlyAfterOutcome ==
  (ReturnedByPoll /\ commits[msg_data.offset] >= 1) =>
    \/ \E r \in structures :
         /\ r.document_id = msg_data.value.document_id
         /\ r.checksum = msg_data.value.md5_checksum
    \/ \E i \in 1..Len(published) : published[i].topic = "errors.processing"
    \/ validate_event(msg_data.value) # "event"

\* C3 (as claimed, its safety part): a message returned by poll is never
\* left without a commit: when its handling ends, commit has been invoked.
C3_EveryDeliveryCommitted ==
  (Handled /\ ReturnedByPoll) => commits[msg_data.offset] >= 1

\* C4 (as claimed): when the handling of a committed message ends, exactly
\* one outbound event has been published for it.
C4_ExactlyOneEvent ==
  (Handled /\ ReturnedByPoll /\ commits[msg_data.offset] >= 1) =>
    Len(published) = 1

\* C5 (as claimed): for max_retries >= 0, a job all of whose orchestrator
\* invocations failed with a non-parse error made max_retries + 1
\* invocations and max_retries sleeps, published exactly one
\* max_retries_exceeded error event, and commit was invoked exactly once.
C5_ExhaustedRetries ==
  (Handled /\ Dispatched /\ max_retries >= 0
     /\ invocations >= 1 /\ failures = invocations) =>
    /\ invocations = max_retries + 1
    /\ Len(sleeps) = max_retries
    /\ Len(published) = 1
    /\ ErrorEventsOf("max_retries_exceeded") = { 1 }
    /\ commits[msg_data.offset] = 1

\* C6: the sleep before retry k is schedule[min(k-1, len(schedule)-1)]
\* (0-based), the last delay being reused past the end of the schedule.
C6_BackoffSchedule ==
  \A k \in 1..Len(sleeps) :
    sleeps[k] = ExpectedSchedule[Min(k, Len(ExpectedSchedule))]

\* C6 witness: a job has slept more often than the schedule has entries.
C6_Witness ==
  /\ Len(sleeps) > Len(ExpectedSchedule)
  /\ sleeps[Len(sleeps)] = ExpectedSchedule[Len(ExpectedSchedule)]

\* C7 (as claimed): a job whose first orchestrator invocation ended in a
\* parse failure of the parser made no further invocation and no sleep,
\* published exactly one parsing_error event, had commit invoked exactly
\* once, and left Document.status = parse_failed.
C7_ParseFailure ==
  (Handled /\ Dispatched /\ retry_count = 0
     /\ result.exc = "ValueError" /\ result.cause = "parse") =>
    /\ invocations = 1
    /\ sleeps = << >>
    /\ Len(published) = 1
    /\ ErrorEventsOf("parsing_error") = { 1 }
    /\ commits[msg_data.offset] = 1
    /\ documents[msg_data.value.document_id].status = "parse_failed"

\* C8 (as claimed): a process call made when a row for its (document_id,
\* checksum) exists returns skipped = true and neither downloads, parses
\* nor writes.
C8_SecondCallSkips ==
  (result.document_id # "" /\ result.existed) =>
    /\ result.exc = "none"
    /\ result.skipped
    /\ ~result.downloaded
    /\ ~result.parsed
    /\ ~result.wrote
    /\ ~result.status_set

\* C9 (as claimed): the structure_id returned on the skip path is the id of
\* a row stored for the same (document_id, checksum).
C9_SkipReturnsOwnRow ==
  (result.exc = "none" /\ result.skipped) =>
    \E r \in structures :
      /\ r.id = result.structure_id
      /\ r.document_id = result.document_id
      /\ r.checksum = result.checksum

\* C11 (as claimed): when a process_document call has returned or raised,
\* the temporary file it created, if any, has been removed.
C11_TempFileRemoved ==
  result.document_id # "" => result.temp_file # "present"

C13_DownloadFailureIsSystemError ==
  result.cause \in { "too_large", "download", "save" } =>
    /\ result.exc = "Exception"
    /\ ~result.status_set
    /\ job_pc \notin { "publish_parse_error" }

\* The positions of the consume-loop thread inside _shutdown and after it.
ShutdownPcs == { "drain", "close_consumer", "flush_producer", "exited" }

\* The polled messages for which commit was never invoked.
Uncommitted == { o \in 1..polled : commits[o] = 0 }

\* C14 (as claimed): the consume loop polls only when no dispatched job is
\* executing, and at most one polled message is uncommitted.
C14_OneJobOneUncommitted ==
  /\ main_pc = "poll" => job_pc = "idle"
  /\ Cardinality(Uncommitted) <= 1

\* C15 (as claimed): when control is back in the consume loop after the
\* job's terminal transition, the in-flight table has no entry for the job.
C15_NoEntryAfterJob ==
  (Handled /\ Dispatched) => job.document_id \notin in_flight_jobs

\* C16 (as claimed): the in-flight table never holds more entries than the
\* configured worker pool size.
C16_InFlightWithinPool == Cardinality(in_flight_jobs) <= worker_count

\* C17 (as claimed): when the payload of a fetched message does not decode
\* (no payload, not UTF-8, not JSON), poll has committed the message and
\* returned None without raising.
C17_PoisonMessageCommitted ==
  last_poll \in { "absent", "bad_utf8", "bad_json" } =>
    /\ commits[msg_data.offset] >= 1
    /\ main_pc \notin ShutdownPcs

\* C18: a poll call invokes commit only when the payload fails to decode as
\* JSON: not on a timeout, an end of partition, a stopped consumer or a
\* message it returns.
C18_PollCommitsOnlyOnDecodeFailure ==
  [][ (main_pc = "poll" /\ commits' # commits) => last_poll' = "bad_json" ]_vars

\* C18 witness: poll has returned a decoded message and no commit has been
\* invoked for it.
C18_Witness ==
  /\ last_poll = "message"
  /\ main_pc = "validate"
  /\ commits[msg_data.offset] = 0

\* C19: when poll has raised a transport error, the consume loop goes to
\* shutdown, and neither that step nor any later one invokes commit.
C19_TransportErrorUncommitted ==
  [][ last_poll' = "transport_error" =>
        (commits' = commits /\ main_pc' \in ShutdownPcs) ]_vars

\* C19 witness: start() has run shutdown to its end after a transport error
\* of poll that followed a handled message.
C19_Witness ==
  /\ last_poll = "transport_error"
  /\ main_pc = "exited"
  /\ ~consumer_open
  /\ polled >= 1

\* C20: a commit whose underlying commit failed leaves the caller on its
\* normal path (the consume loop returns, the job goes to its finally clause
\* with no exception), and commit is not invoked again for the message.
C20_CommitBestEffort ==
  [][ /\ \A o \in 1..MaxMsgs :
           commits'[o] # commits[o] =>
             /\ commits'[o] = commits[o] + 1
             /\ main_pc' = main_pc => (job_pc' = "finally" /\ ~escaped')
             /\ main_pc' # main_pc => main_pc' = "return"
      /\ commit_failed => commits' = commits
    ]_vars

\* C20 witness: the commit of a dispatched message failed, and its handling
\* ended as after a successful commit: no exception, one invocation.
C20_Witness ==
  /\ Handled
  /\ Dispatched
  /\ commit_failed
  /\ ~escaped
  /\ commits[msg_data.offset] = 1

\* C21 (as claimed): a failure to publish never comes back to the caller
\* as an exception: the job retries only after a process_document call
\* that raised, no exception leaves the job, and the consume loop reaches
\* its handler only for a value that validate_event could not take.
C21_PublishNeverThrows ==
  /\ job_pc = "retry" => result.exc = "Exception"
  /\ ~escaped
  /\ main_pc = "handler" =>
       (escaped \/ validate_event(msg_data.value) = "TypeError")

\* C22 (as claimed): once the running flag has been cleared by the signal
\* handler, the consume loop makes no poll call and submits no job.
C22_NoPollAfterSignal ==
  [][ (~running /\ main_pc # "start") =>
        /\ ~(main_pc = "poll" /\ main_pc' # "poll")
        /\ ~(main_pc = "submit" /\ main_pc' # "submit")
    ]_vars

\* The consume-loop thread has closed the consumer.
ConsumerClosed == main_pc \in { "flush_producer", "exited" }

\* C23 (as claimed): the consumer is closed only when no job is executing,
\* the producer is flushed only after the consumer is closed, and when the
\* consumer is closed commit has been invoked for every message that was
\* dispatched as a job.
C23_DrainBeforeClose ==
  /\ main_pc \in { "close_consumer", "flush_producer", "exited" } =>
       job_pc \in { "idle", "done" }
  /\ producer_flushed => ConsumerClosed
  /\ ConsumerClosed =>
       \A o \in 1..polled :
         (o # msg_data.offset \/ Dispatched) => commits[o] >= 1

\* A step of the consume-loop thread: start(), _process_messages() and
\* _shutdown().
ConsumeLoopStep ==
  \/ start
  \/ loop_test
  \/ poll_empty
  \/ poll_raise
  \/ poll_decode_failed
  \/ poll_message
  \/ validate
  \/ publish_invalid
  \/ commit_invalid
  \/ submit
  \/ register
  \/ wait
  \/ handler
  \/ return
  \/ shutdown_drain
  \/ shutdown_close_consumer
  \/ shutdown_flush_producer

\* C24 (as claimed): after the shutdown signal, a dispatched job that never
\* reaches a terminal state does not block the consume-loop thread for
\* ever: until start() has returned (consumer closed, producer flushed) the
\* thread can take a step.
C24_ShutdownWaitBounded ==
  (job_pc = "hung" /\ ~running /\ main_pc # "exited") =>
    ENABLED ConsumeLoopStep

\* C25 (as claimed): when the handling of a decoded payload that fails
\* validation (fields missing or ill-typed, or not an object) ends, exactly
\* one invalid_schema error event was published, commit was invoked once,
\* and no job was dispatched and no orchestrator call made for it.
C25_InvalidSchemaTerminal ==
  (Handled /\ ReturnedByPoll /\ validate_event(msg_data.value) # "event") =>
    /\ Len(published) = 1
    /\ ErrorEventsOf("invalid_schema") = { 1 }
    /\ commits[msg_data.offset] = 1
    /\ job = NoJob
    /\ invocations = 0

\* C26: every error event the producer took, whatever its type, carries
\* retryable = false.
C26_ErrorEventsNotRetryable ==
  \A i \in 1..Len(published) :
    published[i].topic = "errors.processing" => ~published[i].retryable

\* C26 witness: a max_retries_exceeded event, published after retryable
\* failures were exhausted, carries retryable = false.
C26_Witness ==
  /\ ErrorEventsOf("max_retries_exceeded") # {}
  /\ failures >= 1
  /\ \A i \in ErrorEventsOf("max_retries_exceeded") : ~published[i].retryable

\* C27: format resolution takes the format of the MIME-type table when the
\* MIME type is in it, whatever the extension; otherwise the lower-cased file
\* name extension when that is a recognized one; otherwise pdf.
C27_FormatResolution ==
  call.fn = "get_format" =>
    /\ call.mime \in DOMAIN MimeToFormat => call.out = MimeToFormat[call.mime]
    /\ (call.mime \notin DOMAIN MimeToFormat /\ call.ext # "") =>
         call.out = call.ext
    /\ (call.mime \notin DOMAIN MimeToFormat /\ call.ext = "") =>
         call.out = "pdf"

\* An unrecognized MIME type resolved through an upper-case extension.
C27_Witness ==
  /\ call.fn = "get_format"
  /\ call.mime = "text/plain"
  /\ call.name = << "r", ".", "X", "L", "S", "X" >>
  /\ call.out = "xlsx"

\* C28 (as claimed): a call of process that ended with the unsupported-format
\* error downloaded no blob and created no temporary file.
C28_UnsupportedFormatBeforeIO ==
  result.cause = "unsupported_format" =>
    /\ ~result.downloaded
    /\ result.temp_file = "none"

\* C29 (as claimed): validate_event accepts a payload exactly when each of
\* the nine required fields is present (with a value of its type); metadata
\* may be absent and is then empty; a payload missing a required field gives
\* None, never an exception.
C29_AcceptsExactlyComplete ==
  call.fn = "validate_event" =>
    LET required == { "document_id", "original_name", "storage_path",
                      "file_size", "mime_type", "md5_checksum", "user_id",
                      "organization_id", "timestamp" }
        complete == required \subseteq (call.fields \ call.illtyped)
    IN /\ call.out = "event" <=> complete
       /\ (call.out = "event" /\ "metadata" \notin call.fields) =>
            call.metadata = "empty"
       /\ ~complete => call.out = "None"

\* C30 (as claimed): a call of process that returned with skipped = false
\* wrote a new row for (document_id, checksum), and the Document row of the
\* document exists with status parsed.
C30_PersistedAndParsed ==
  (result.document_id # "" /\ result.exc = "none" /\ ~result.skipped) =>
    /\ \E r \in structures :
         /\ r.id = result.structure_id
         /\ r.document_id = result.document_id
         /\ r.checksum = result.checksum
    /\ documents[result.document_id].status = "parsed"

\* C31 (as claimed): every commit invocation is a step of the consume-loop
\* thread: the pool worker thread does not move in a step that commits.
C31_CommitsByConsumeLoopOnly ==
  [][ commits' # commits => (job_pc' = job_pc /\ main_pc' # main_pc) ]_vars

ParsedEvents ==
  { i \in 1..Len(published) : published[i].topic # "errors.processing" }

\* C33 (as claimed): when the call of process_document that follows j
\* calls failed with a non-parse error (1 <= j <= max_retries) has
\* succeeded, the job has slept j times and published nothing, and its next
\* step publishes the one ParsedEvent and leads to the one commit: no
\* ErrorEvent, no further retry.
C33_RetryThenSuccess ==
  [][ (/\ job_pc = "publish_parsed"
       /\ failures >= 1
       /\ failures <= max_retries
       /\ invocations = failures + 1
       /\ job_pc' # job_pc) =>
        /\ Len(sleeps) = failures
        /\ published = << >>
        /\ commits[job.message] = 0
        /\ Len(published') = 1
        /\ ParsedEvents' = { 1 }
        /\ job_pc' = "commit" ]_vars

\* C34: every published ParsedEvent names a DocumentStructure row that is
\* in the store, with that id and for that document; and on the success path
\* the row is there before the event is published, and the event is
\* published before commit is invoked.
C34_PersistPublishCommit ==
  LET Stored(d, id) ==
        \E r \in structures : r.id = id /\ r.document_id = d
  IN /\ \A i \in ParsedEvents :
          Stored(published[i].document_id, published[i].structure_id)
     /\ job_pc = "publish_parsed" =>
          /\ Stored(job.document_id, result.structure_id)
          /\ ParsedEvents = {}
          /\ commits[job.message] = 0
     /\ (job_pc = "commit" /\ CommitInTry) =>
          /\ ParsedEvents = { 1 }
          /\ published[1].structure_id = result.structure_id
          /\ commits[job.message] = 0
     /\ (CommitInTry /\ commits[job.message] >= 1) => ParsedEvents = { 1 }

\* C34 witness: a delivery handled on the success path: its row stored, its
\* ParsedEvent published, its commit invoked.
C34_Witness ==
  /\ Handled
  /\ Dispatched
  /\ ParsedEvents = { 1 }
  /\ \E r \in structures : r.id = published[1].structure_id
  /\ commits[msg_data.offset] = 1

\* C35: commits are invoked in the order poll returned the messages: no
\* step invokes commit for an offset once commit has been invoked for a
\* later one, and none for an offset poll has not yet fetched; messages
\* committed for a decode failure or an invalid schema included.
C35_CommitsInPollOrder ==
  [][ \A o1 \in 1..MaxMsgs :
        commits'[o1] > commits[o1] =>
          /\ o1 <= polled'
          /\ \A o2 \in (o1 + 1)..MaxMsgs : commits[o2] = 0 ]_vars

\* C35 witness: two messages were fetched and committed, the first through
\* its job, the second inside poll for a decode failure.
C35_Witness ==
  /\ polled = 2
  /\ commits[1] = 1
  /\ commits[2] = 1
  /\ last_poll = "bad_json"
  /\ structures # {}

\* C36: an exception raised while a polled message is validated, dispatched
\* or executed (validate_event raising, the invalid_schema publish raising,
\* an exception that left the job) takes the consume loop to its handler,
\* which invokes the commit of that message, not yet committed, and returns
\* to the loop; the loop is left only when poll raised or the running flag
\* is down.
C36_LoopCatchesExceptions ==
  [][ main_pc' # main_pc =>
        /\ (main_pc = "validate"
              /\ validate_event(msg_data.value) = "TypeError") =>
             main_pc' = "handler"
        /\ (main_pc = "publish_invalid" /\ published' = published) =>
             main_pc' = "handler"
        /\ (main_pc = "wait" /\ escaped) => main_pc' = "handler"
        /\ main_pc = "handler" =>
             /\ commits[msg_data.offset] = 0
             /\ commits'[msg_data.offset] = 1
             /\ main_pc' = "return"
        /\ main_pc = "return" => main_pc' = "loop"
        /\ main_pc' = "drain" =>
             \/ main_pc = "poll" /\ PollRaises(last_poll')
             \/ main_pc = "loop" /\ ~running ]_vars

\* C36 witness: the invalid_schema publish raised, and the message was
\* committed by the handler and its handling returned to a running loop.
C36_Witness ==
  /\ Handled
  /\ ReturnedByPoll
  /\ validate_event(msg_data.value) = "None"
  /\ published = << >>
  /\ commits[msg_data.offset] = 1
  /\ running

\* C37: a call of process whose idempotency lookup failed goes on as if
\* nothing had been found.  A call that found the row of its (document_id,
\* checksum) in the store and did not take the skip path (its lookup
\* failed) went to the download; when the lookup was its only failure and
\* the blob is of a supported format, within the size limit and parses, it
\* downloaded, parsed, wrote a new row and returned; when it raised, the
\* cause is one of the later stages.  The skip path is only taken by a call
\* none of whose store reads failed.
C37_LookupFailureProceeds ==
  /\ (/\ result.document_id # ""
      /\ result.existed
      /\ ~result.skipped
      /\ result.cause # "fetch") =>
       /\ result.failed_calls >= 1
       /\ result.exc # "none" =>
            result.cause \in { "too_large", "download", "unsupported_format",
                               "parse", "save" }
       /\ (result.failed_calls = 1 /\ result.exc # "ValueError") =>
            /\ result.exc = "none"
            /\ result.downloaded /\ result.parsed /\ result.wrote
            /\ \E r \in structures :
                 /\ r.id = result.structure_id
                 /\ r.document_id = result.document_id
                 /\ r.checksum = result.checksum
  /\ result.skipped => result.failed_calls = 0

\* C37 witness: the lookup of a redelivered (document_id, checksum) failed,
\* nothing else did, and the call wrote a second row and returned.
C37_Witness ==
  /\ result.document_id # ""
  /\ result.existed
  /\ ~result.skipped
  /\ result.failed_calls = 1
  /\ result.exc = "none"
  /\ result.wrote
  /\ Cardinality({ r \in structures :
                     /\ r.document_id = result.document_id
                     /\ r.checksum = result.checksum }) = 2

C39_ResolvedFormatHasParser ==
  /\ job # NoJob => JobFormat \in { "docx", "pdf", "pptx", "xlsx" }
  /\ result.cause = "unsupported_format" =>
       ErrorEventsOf("parsing_error") = {}

\* C10 (as claimed): the store holds at most one row per (document_id,
\* checksum).
C10_OneRowPerPair ==
  \A r1, r2 \in structures :
    (r1.document_id = r2.document_id /\ r1.checksum = r2.checksum) => r1 = r2

====
